---- MODULE Spec2Model ----
(***************************************************************************)
(* Historical Temperature Visualizer (src/v1.0.py).                        *)
(*                                                                         *)
(* The program is a Streamlit script: every interaction with a widget      *)
(* re-runs the whole script from the top.  One run reads the sidebar       *)
(* widgets, resolves latitude/longitude (geocoding a city name or taking   *)
(* the two number inputs), and, when the run was triggered by the          *)
(* "Visualize Temperature Data" button, fetches the observations and       *)
(* emits metrics, a heatmap and a line chart to the page.                  *)
(*                                                                         *)
(* Temperatures are whole degrees; means and the regression slope are      *)
(* exact rationals [num, den].  A missing value is the tagged value NaN.   *)
(***************************************************************************)
EXTENDS Integers, Sequences, FiniteSets, TLC

VARIABLES
    location_input_type,  \* the radio button
    city_name,            \* the text input
    lat_input, lon_input, \* the two number inputs (1e-4 degrees)
    latitude, longitude,  \* what the sidebar resolved in the last run
    sidebar,              \* the message the sidebar showed in the last run
    button,               \* the last run was triggered by the button
    page,                 \* elements the last run emitted to the main area, in order
    fetch_outcome,        \* what fetch_historical_weather_data did in the last run
    df,                   \* the frame the fetch returned (rows in order)
    yearly_avg,           \* groupby('year').mean().reset_index()
    slope,                \* np.polyfit(...)[0]
    metrics,              \* the values shown by the st.metric calls
    heatmap_data,         \* df.pivot(index='day', columns='year', values='max_temp')
    pc                    \* "rerun": a run of the script is due; "idle": it has ended

vars == <<location_input_type, city_name, lat_input, lon_input, latitude, longitude,
          sidebar, button, page, fetch_outcome, df, yearly_avg, slope, metrics,
          heatmap_data, pc>>

-----------------------------------------------------------------------------
(* Bounds and inputs *)

MaxRows == 3

CurrentYear == 2023
StartYear == CurrentYear - 30

WindowYears == {2021, 2022, 2023}
Temps == {20, 21, 22}

None == [some |-> FALSE, v |-> 0]
Some(x) == [some |-> TRUE, v |-> x]

NaN == [nan |-> TRUE, v |-> 0]
Val(t) == [nan |-> FALSE, v |-> t]

Row(y, d, t) == [year |-> y, day |-> d, max_temp |-> t]

Values == {NaN} \cup {Val(t) : t \in Temps}

\* Rows the data source may deliver: the days 28 and 29 of the years of the
\* window, a row of a year before the window and a row with day 32.
RowUniverse ==
    {Row(y, d, t) : y \in WindowYears, d \in {28, 29}, t \in Values}
    \cup {Row(StartYear - 1, 28, Val(20)), Row(2021, 32, Val(20))}

KeyLeq(r, s) == r.year < s.year \/ (r.year = s.year /\ r.day <= s.day)

RECURSIVE OrderedFrames(_)
OrderedFrames(n) ==
    IF n = 0 THEN {<<>>}
    ELSE LET shorter == OrderedFrames(n - 1)
         IN  shorter \cup
             {Append(s, r) : s \in {f \in shorter : Len(f) = n - 1}, r \in RowUniverse}

\* The frames fetch_historical_weather_data may return: rows ordered by
\* (year, day); a (year, day) pair may repeat.
FetchFrames ==
    {f \in OrderedFrames(MaxRows) :
        \A i \in 1..(Len(f) - 1) : KeyLeq(f[i], f[i + 1])}

FetchOutcomes == {"raised", "none", "frame"}
GeocodeOutcomes == {"found", "no_match", "timed_out", "unavailable", "other_error"}

CityNames == {"", "New York"}
Latitudes == {407128, 0}
Longitudes == {-740060}

-----------------------------------------------------------------------------
(* Helpers: sequences, rationals *)

Range(s) == {s[i] : i \in DOMAIN s}

Min(S) == CHOOSE x \in S : \A y \in S : x <= y

RECURSIVE SortedSeq(_)
\* the elements of a finite set of integers, ascending (pandas sorts group
\* keys and pivot labels)
SortedSeq(S) ==
    IF S = {} THEN <<>> ELSE <<Min(S)>> \o SortedSeq(S \ {Min(S)})

RECURSIVE SumOver(_, _)
\* the sum of max_temp over the rows of f at the positions I
SumOver(f, I) ==
    IF I = {} THEN 0
    ELSE LET i == CHOOSE j \in I : TRUE
         IN  f[i].max_temp.v + SumOver(f, I \ {i})

RECURSIVE SumSeq(_)
SumSeq(s) == IF s = <<>> THEN 0 ELSE Head(s) + SumSeq(Tail(s))

RECURSIVE ProdSeq(_)
ProdSeq(s) == IF s = <<>> THEN 1 ELSE Head(s) * ProdSeq(Tail(s))

Abs(n) == IF n < 0 THEN -n ELSE n

NaNRat == [nan |-> TRUE, num |-> 0, den |-> 1]
Rat(n, d) == [nan |-> FALSE, num |-> n, den |-> d]

\* mean() of a float column skips NaN; the mean of no values is NaN
MeanOver(f, I) ==
    LET present == {i \in I : ~f[i].max_temp.nan}
    IN  IF present = {} THEN NaNRat
        ELSE Rat(SumOver(f, present), Cardinality(present))

\* f"{x:.1f}" / f"{x:.2f}": x rounded to a multiple of 1/scale (ties to
\* even), as a count of such units; nan formats as "nan"
Format(r, scale) ==
    IF r.nan THEN [nan |-> TRUE, units |-> 0]
    ELSE LET n == r.num * scale
             q == n \div r.den
             rem == n - q * r.den
         IN  [nan |-> FALSE,
              units |-> IF 2 * rem > r.den THEN q + 1
                        ELSE IF 2 * rem = r.den THEN q + (q % 2)
                        ELSE q]

-----------------------------------------------------------------------------
(* The computations of the button handler *)

\* line 81: df is not None and not df.empty
HasData(fo, frame) == fo = "frame" /\ Len(frame) > 0

\* line 86: one entry per distinct year of the frame, ascending by year; the
\* group of a year whose values are all NaN is kept, with mean NaN
GroupbyYearMean(frame) ==
    LET years == SortedSeq({r.year : r \in Range(frame)})
    IN  [k \in DOMAIN years |->
            [year |-> years[k],
             max_temp |-> MeanOver(frame, {i \in DOMAIN frame : frame[i].year = years[k]})]]

NaNSlope == [nan |-> TRUE, num |-> 0, den |-> 1, err |-> 0]

HasNaNAvg(ya) == \E k \in DOMAIN ya : ya[k].max_temp.nan

\* The least-squares slope over the (year, average) pairs, exactly:
\*   (n*Sum(x*y) - Sum(x)*Sum(y)) / (n*Sum(x^2) - Sum(x)^2)
\* with the averages brought to the common denominator D.
ExactSlope(ya) ==
    LET n == Len(ya)
        D == ProdSeq([k \in DOMAIN ya |-> ya[k].max_temp.den])
        Y == [k \in DOMAIN ya |-> ya[k].max_temp.num * (D \div ya[k].max_temp.den)]
        X == [k \in DOMAIN ya |-> ya[k].year]
        Sx == SumSeq(X)
        Sy == SumSeq(Y)
        Sxy == SumSeq([k \in DOMAIN ya |-> X[k] * Y[k]])
        Sxx == SumSeq([k \in DOMAIN ya |-> X[k] * X[k]])
    IN  Rat(n * Sxy - Sx * Sy, D * (n * Sxx - Sx * Sx))

\* line 93: np.polyfit(x, y, 1)[0].  polyfit solves the column-scaled
\* Vandermonde system with lstsq (LAPACK gelsd, an SVD):
\*  - a NaN average makes gelsd either fail ("SVD did not converge",
\*    LinAlgError) or return NaN coefficients, depending on the LAPACK build;
\*  - one point gives the rank-deficient system [1 1].c = y whose minimum-norm
\*    solution is c = (y/2, y/2), unscaled to a slope of y/(2x) (only a
\*    RankWarning is issued);
\*  - two or more points give the least-squares slope, in floating point: a
\*    slope that is exactly zero is returned as rounding noise of either sign,
\*    or as zero (always zero when every average is zero).
Polyfit(ya, lapack_raises, rounding) ==
    IF HasNaNAvg(ya)
    THEN [raised |-> lapack_raises, slope |-> NaNSlope]
    ELSE IF Len(ya) = 1
    THEN [raised |-> FALSE,
          slope |-> [nan |-> FALSE, num |-> ya[1].max_temp.num,
                     den |-> 2 * ya[1].year * ya[1].max_temp.den, err |-> 0]]
    ELSE LET e == ExactSlope(ya)
             allzero == \A k \in DOMAIN ya : ya[k].max_temp.num = 0
         IN  [raised |-> FALSE,
              slope |-> [nan |-> FALSE, num |-> e.num, den |-> e.den,
                         err |-> IF e.num = 0 /\ ~allzero THEN rounding ELSE 0]]

LapackChoices(ya) == IF HasNaNAvg(ya) THEN BOOLEAN ELSE {FALSE}

RoundingChoices(ya) ==
    IF ~HasNaNAvg(ya) /\ Len(ya) >= 2 /\ ExactSlope(ya).num = 0 THEN {-1, 0, 1} ELSE {0}

\* slope > 0 and slope < 0 on a float: both false for NaN
SlopeGt0(s) == ~s.nan /\ (s.num > 0 \/ (s.num = 0 /\ s.err > 0))
SlopeLt0(s) == ~s.nan /\ (s.num < 0 \/ (s.num = 0 /\ s.err < 0))

\* line 104
TrendDirection(s) ==
    IF SlopeGt0(s) THEN "Rising" ELSE IF SlopeLt0(s) THEN "Falling" ELSE "Stable"

\* line 105: abs(slope * 10)
TrendMagnitude(s) ==
    [nan |-> s.nan, num |-> Abs(s.num * 10), den |-> s.den, err |-> Abs(s.err * 10)]

\* lines 99-101: mean, max and min of the max_temp column, NaN skipped
OverallMean(frame) == MeanOver(frame, DOMAIN frame)

OverallMax(frame) ==
    LET present == {i \in DOMAIN frame : ~frame[i].max_temp.nan}
    IN  IF present = {} THEN NaNRat
        ELSE Rat(CHOOSE t \in {frame[i].max_temp.v : i \in present} :
                    \A i \in present : frame[i].max_temp.v <= t, 1)

OverallMin(frame) ==
    LET present == {i \in DOMAIN frame : ~frame[i].max_temp.nan}
    IN  IF present = {} THEN NaNRat
        ELSE Rat(CHOOSE t \in {frame[i].max_temp.v : i \in present} :
                    \A i \in present : t <= frame[i].max_temp.v, 1)

\* line 111
TotalYears(ya) == Len(ya)

HasDuplicateKey(frame) ==
    \E i, j \in DOMAIN frame :
        i < j /\ frame[i].day = frame[j].day /\ frame[i].year = frame[j].year

PivotIndex(frame) == SortedSeq({r.day : r \in Range(frame)})
PivotColumns(frame) == SortedSeq({r.year : r \in Range(frame)})

PivotCellZeroFilled(frame, d, y) ==
    IF \E i \in DOMAIN frame : frame[i].day = d /\ frame[i].year = y
    THEN frame[CHOOSE i \in DOMAIN frame : frame[i].day = d /\ frame[i].year = y].max_temp
    ELSE Val(0)

\* the cell of the pivot at (day, year): the row's value, NaN where the frame
\* has no such row
PivotCell(frame, d, y) ==
    IF \E i \in DOMAIN frame : frame[i].day = d /\ frame[i].year = y
    THEN frame[CHOOSE i \in DOMAIN frame : frame[i].day = d /\ frame[i].year = y].max_temp
    ELSE NaN

NoHeatmap == [index |-> <<>>, columns |-> <<>>, cell |-> <<>>]

\* line 117: df.pivot raises ValueError ("Index contains duplicate entries")
\* when a (day, year) pair repeats
Pivot(frame) ==
    IF HasDuplicateKey(frame) THEN [raised |-> TRUE, data |-> NoHeatmap]
    ELSE [raised |-> FALSE,
          data |-> [index |-> PivotIndex(frame),
                    columns |-> PivotColumns(frame),
                    cell |-> [p \in Range(PivotIndex(frame)) \X Range(PivotColumns(frame))
                                |-> PivotCell(frame, p[1], p[2])]]]

-----------------------------------------------------------------------------
(* One run of the script *)

Geocoded == [latitude |-> 407128, longitude |-> -740060]

\* lines 34-59: the sidebar resolves latitude and longitude.  An exception of
\* geocode other than GeocoderTimedOut/GeocoderUnavailable is not caught and
\* ends the run at line 41.
Sidebar(type, city, latin, lonin, geo) ==
    IF type = "City Name"
    THEN IF city # ""
         THEN IF geo = "found"
              THEN [crashed |-> FALSE, latitude |-> Some(Geocoded.latitude),
                    longitude |-> Some(Geocoded.longitude), msg |-> "located"]
              ELSE IF geo = "no_match"
              THEN [crashed |-> FALSE, latitude |-> None, longitude |-> None,
                    msg |-> "location_not_found"]
              ELSE IF geo \in {"timed_out", "unavailable"}
              THEN [crashed |-> FALSE, latitude |-> None, longitude |-> None,
                    msg |-> "geocoding_timed_out"]
              ELSE [crashed |-> TRUE, latitude |-> None, longitude |-> None,
                    msg |-> "uncaught_exception"]
         ELSE [crashed |-> FALSE, latitude |-> None, longitude |-> None, msg |-> ""]
    ELSE [crashed |-> FALSE, latitude |-> Some(latin), longitude |-> Some(lonin), msg |-> ""]

LocationResolvedAlways(lat, lon) == TRUE

\* line 71
LocationResolved(lat, lon) == lat # None /\ lon # None

NoMetrics ==
    [avg |-> Format(NaNRat, 10), max |-> Format(NaNRat, 10), min |-> Format(NaNRat, 10),
     trend_direction |-> "", trend_magnitude |-> NaNSlope,
     trend_text |-> Format(NaNRat, 100), total_years |-> 0]

\* lines 99-111: the five st.metric calls
Metrics(frame, ya, s) ==
    [avg |-> Format(OverallMean(frame), 10),
     max |-> Format(OverallMax(frame), 10),
     min |-> Format(OverallMin(frame), 10),
     trend_direction |-> TrendDirection(s),
     trend_magnitude |-> TrendMagnitude(s),
     trend_text |-> Format(TrendMagnitude(s), 100),
     total_years |-> TotalYears(ya)]

MetricElements ==
    <<"metric_avg", "metric_max", "metric_min", "metric_trend", "metric_total_years">>

ChartElements ==
    <<"heatmap", "subheader_line", "line_chart", "raw_data", "download_button">>

NothingComputed ==
    [page |-> <<>>, fetch_outcome |-> "not_called", df |-> <<>>, yearly_avg |-> <<>>,
     slope |-> NaNSlope, metrics |-> NoMetrics, heatmap_data |-> NoHeatmap]

ExceptionErrorAsNoData(emitted) == Append(emitted, "error_no_data")

\* line 176: the except branch keeps what the run has emitted so far and adds
\* the error
ExceptionError(emitted) == Append(emitted, "error_exception")

\* line 174
NoDataError(emitted) == Append(emitted, "error_no_data")

\* line 178
InvalidLocationError(emitted) == Append(emitted, "error_invalid_location")

\* lines 82-172: the branch that has data.  Elements are emitted as the
\* statements run; an exception leaves the earlier ones on the page.
Visualize(frame, lapack_raises, rounding) ==
    LET ya == GroupbyYearMean(frame)
        fit == Polyfit(ya, lapack_raises, rounding)
        pv == Pivot(frame)
        base == [NothingComputed EXCEPT !.fetch_outcome = "frame", !.df = frame,
                                        !.yearly_avg = ya]
        p1 == <<"subheader_summary">>
        p2 == p1 \o MetricElements \o <<"subheader_heatmap">>
        shown == [base EXCEPT !.slope = fit.slope, !.metrics = Metrics(frame, ya, fit.slope)]
    IN  IF fit.raised THEN [base EXCEPT !.page = ExceptionError(p1)]
        ELSE IF pv.raised THEN [shown EXCEPT !.page = ExceptionError(p2)]
        ELSE [shown EXCEPT !.page = p2 \o ChartElements, !.heatmap_data = pv.data]

\* lines 72-176: the try block with its fetch outcome
Handler(fo, frame, lapack_raises, rounding) ==
    IF fo = "raised"
    THEN [NothingComputed EXCEPT !.fetch_outcome = "raised", !.page = ExceptionError(<<>>)]
    ELSE IF HasData(fo, frame)
    THEN Visualize(frame, lapack_raises, rounding)
    ELSE [NothingComputed EXCEPT !.fetch_outcome = fo, !.df = frame,
                                 !.page = NoDataError(<<>>)]

SetOutputs(o) ==
    /\ page' = o.page
    /\ fetch_outcome' = o.fetch_outcome
    /\ df' = o.df
    /\ yearly_avg' = o.yearly_avg
    /\ slope' = o.slope
    /\ metrics' = o.metrics
    /\ heatmap_data' = o.heatmap_data

-----------------------------------------------------------------------------
(* State machine *)

\* The first page load: the widgets hold their defaults and the script is
\* about to run for the first time.
Init ==
    /\ location_input_type = "City Name"
    /\ city_name = "New York"
    /\ lat_input = 407128
    /\ lon_input = -740060
    /\ latitude = None
    /\ longitude = None
    /\ sidebar = ""
    /\ button = FALSE
    /\ page = NothingComputed.page
    /\ fetch_outcome = NothingComputed.fetch_outcome
    /\ df = NothingComputed.df
    /\ yearly_avg = NothingComputed.yearly_avg
    /\ slope = NothingComputed.slope
    /\ metrics = NothingComputed.metrics
    /\ heatmap_data = NothingComputed.heatmap_data
    /\ pc = "rerun"

\* A widget interaction ends the finished run's namespace and page and makes
\* the script run again from the top.
StartRerun(pressed) ==
    /\ pc = "idle"
    /\ pc' = "rerun"
    /\ button' = pressed
    /\ latitude' = None
    /\ longitude' = None
    /\ sidebar' = ""
    /\ SetOutputs(NothingComputed)

\* line 29: the radio button
SelectLocationInputType ==
    \E t \in {"City Name", "Coordinates"} :
        /\ t # location_input_type
        /\ location_input_type' = t
        /\ StartRerun(FALSE)
        /\ UNCHANGED <<city_name, lat_input, lon_input>>

\* line 35: the text input, shown in "City Name" mode
EnterCityName ==
    \E c \in CityNames :
        /\ location_input_type = "City Name"
        /\ c # city_name
        /\ city_name' = c
        /\ StartRerun(FALSE)
        /\ UNCHANGED <<location_input_type, lat_input, lon_input>>

\* lines 57-59: the number inputs, shown in "Coordinates" mode
EnterCoordinates ==
    \E la \in Latitudes, lo \in Longitudes :
        /\ location_input_type = "Coordinates"
        /\ <<la, lo>> # <<lat_input, lon_input>>
        /\ lat_input' = la
        /\ lon_input' = lo
        /\ StartRerun(FALSE)
        /\ UNCHANGED <<location_input_type, city_name>>

\* line 70: the button; st.sidebar.button returns True in the run it triggers
ClickVisualize ==
    /\ StartRerun(TRUE)
    /\ UNCHANGED <<location_input_type, city_name, lat_input, lon_input>>

\* lines 29-178: one run of the script, top to bottom
RunScript ==
    /\ pc = "rerun"
    /\ pc' = "idle"
    /\ UNCHANGED <<location_input_type, city_name, lat_input, lon_input, button>>
    /\ \E geo \in GeocodeOutcomes :
        LET sb == Sidebar(location_input_type, city_name, lat_input, lon_input, geo)
        IN  /\ latitude' = sb.latitude
            /\ longitude' = sb.longitude
            /\ sidebar' = sb.msg
            /\ IF sb.crashed \/ ~button
               THEN SetOutputs(NothingComputed)
               ELSE IF ~LocationResolved(sb.latitude, sb.longitude)
               THEN SetOutputs([NothingComputed EXCEPT !.page = InvalidLocationError(<<>>)])
               ELSE \E fo \in FetchOutcomes :
                      \E frame \in (IF fo = "frame" THEN FetchFrames ELSE {<<>>}) :
                        \E lapack_raises \in LapackChoices(GroupbyYearMean(frame)),
                           rounding \in RoundingChoices(GroupbyYearMean(frame)) :
                            SetOutputs(Handler(fo, frame, lapack_raises, rounding))

Next ==
    \/ SelectLocationInputType
    \/ EnterCityName
    \/ EnterCoordinates
    \/ ClickVisualize
    \/ RunScript

Spec == Init /\ [][Next]_vars

-----------------------------------------------------------------------------
(* Properties *)

Emitted(e) == e \in Range(page)

\* the button run has ended and its try block was entered with a frame that
\* has rows
RanWithData == pc = "idle" /\ button /\ fetch_outcome = "frame" /\ Len(df) > 0

ErrorShown ==
    Emitted("error_exception") \/ Emitted("error_no_data") \/ Emitted("error_invalid_location")

StatsShown == Emitted("metric_avg") \/ Emitted("metric_max") \/ Emitted("metric_min")
TrendShown == Emitted("metric_trend")
YearsShown == Emitted("metric_total_years") \/ Emitted("line_chart")
GridShown == Emitted("heatmap")

AnyResultShown == StatsShown \/ TrendShown \/ YearsShown \/ GridShown
FullBundleShown ==
    /\ Emitted("metric_avg") /\ Emitted("metric_max") /\ Emitted("metric_min")
    /\ Emitted("metric_trend") /\ Emitted("metric_total_years")
    /\ Emitted("heatmap") /\ Emitted("line_chart")

\* positions of the rows of df with year y that carry a value
ValuedRows(y) == {i \in DOMAIN df : df[i].year = y /\ ~df[i].max_temp.nan}
YearsOfDf == {df[i].year : i \in DOMAIN df}
DaysOfDf == {df[i].day : i \in DOMAIN df}
YearsWithValues == {y \in YearsOfDf : ValuedRows(y) # {}}

AllMissing == \A i \in DOMAIN df : df[i].max_temp.nan

\* the frame breaks an invariant of an Observation Set: a repeated
\* (year, day) pair, a day outside 1..31, a year outside the window
Malformed ==
    \/ HasDuplicateKey(df)
    \/ \E i \in DOMAIN df : df[i].day < 1 \/ df[i].day > 31
    \/ \E i \in DOMAIN df : df[i].year < StartYear \/ df[i].year > CurrentYear

\* the button run had a well-formed frame with rows
RanWithObservations == RanWithData /\ ~Malformed

Sign(n) == IF n > 0 THEN 1 ELSE IF n < 0 THEN -1 ELSE 0

\* C1: whenever there are fewer than 2 Yearly Averages, an error is reported
\* and no trend (slope, direction, magnitude per decade) is displayed.
\* (Stated for frames in which every year has a value, so that the years
\* with values are the years of yearly_avg.)
C1_FewerThanTwoYearsIsAnError ==
    (RanWithObservations /\ YearsOfDf = YearsWithValues /\ Cardinality(YearsWithValues) < 2) =>
        (ErrorShown /\ ~TrendShown)

\* C2: a visualize run is all-or-nothing: the full bundle and no error, or an
\* error and no part of the bundle.
C2_AllOrNothing ==
    (pc = "idle" /\ button /\ sidebar # "uncaught_exception") =>
        \/ FullBundleShown /\ ~ErrorShown
        \/ ErrorShown /\ ~AnyResultShown

\* C3: a year whose observations are all missing is absent from the Yearly
\* Averages; every year present carries the mean of its non-missing values,
\* and "Total Years of Data" counts only such years.
C3_AllMissingYearOmitted ==
    RanWithObservations =>
        /\ \A k \in DOMAIN yearly_avg :
              /\ ValuedRows(yearly_avg[k].year) # {}
              /\ ~yearly_avg[k].max_temp.nan
              /\ yearly_avg[k].max_temp.num * Cardinality(ValuedRows(yearly_avg[k].year))
                    = SumOver(df, ValuedRows(yearly_avg[k].year)) * yearly_avg[k].max_temp.den
        /\ Emitted("metric_total_years") =>
              metrics.total_years = Cardinality(YearsWithValues)

\* C4: an empty frame, or a frame whose values are all missing, is reported
\* as an error and no statistic, trend or grid is displayed.
C4_NoValuesIsReported ==
    (pc = "idle" /\ button /\ fetch_outcome = "frame" /\ ~Malformed /\ AllMissing) =>
        (ErrorShown /\ ~AnyResultShown)

\* C5: a frame with a duplicate (year, day) pair, a day outside 1..31 or a
\* year outside the 30-year window is rejected with an error before any
\* derived result is displayed.
C5_MalformedInputRejected ==
    (pc = "idle" /\ button /\ fetch_outcome = "frame" /\ Malformed) =>
        (ErrorShown /\ ~AnyResultShown)

C7_GridShape ==
    GridShown =>
        /\ Len(heatmap_data.index) = Cardinality(DaysOfDf)
        /\ Range(heatmap_data.index) = DaysOfDf
        /\ Len(heatmap_data.columns) = Cardinality(YearsOfDf)
        /\ Range(heatmap_data.columns) = YearsOfDf
        /\ DOMAIN heatmap_data.cell = DaysOfDf \X YearsOfDf
        /\ \A d \in DaysOfDf, y \in YearsOfDf :
              LET valued == {i \in DOMAIN df :
                                df[i].day = d /\ df[i].year = y /\ ~df[i].max_temp.nan}
              IN  /\ \A i \in valued : heatmap_data.cell[<<d, y>>] = df[i].max_temp
                  /\ valued = {} => heatmap_data.cell[<<d, y>>] = NaN

\* day 29 is present in one year only and the grid was displayed
C7_Witness ==
    /\ GridShown
    /\ Cardinality(YearsOfDf) = 2
    /\ Cardinality({i \in DOMAIN df : df[i].day = 29}) = 1
    /\ \E y \in YearsOfDf : heatmap_data.cell[<<29, y>>] = NaN
    /\ \E y \in YearsOfDf : ~heatmap_data.cell[<<29, y>>].nan

\* C8: direction is Rising exactly when slope > 0, Falling exactly when
\* slope < 0, Stable only when the slope is the number 0; the magnitude per
\* decade is abs(slope) * 10.
C8_DirectionFollowsSlope ==
    (RanWithObservations /\ TrendShown) =>
        /\ metrics.trend_direction = "Rising" <=> SlopeGt0(slope)
        /\ metrics.trend_direction = "Falling" <=> SlopeLt0(slope)
        /\ metrics.trend_direction = "Stable" =>
              (~slope.nan /\ slope.num = 0 /\ slope.err = 0)
        /\ ~slope.nan =>
              /\ ~metrics.trend_magnitude.nan
              /\ metrics.trend_magnitude.num * slope.den
                    = Abs(slope.num) * 10 * metrics.trend_magnitude.den

\* the yearly averages are defined and do not decrease, or do not increase,
\* in year order
Monotonic ==
    /\ ~HasNaNAvg(yearly_avg)
    /\ \/ \A k \in 1..(Len(yearly_avg) - 1) :
             yearly_avg[k].max_temp.num * yearly_avg[k + 1].max_temp.den
                <= yearly_avg[k + 1].max_temp.num * yearly_avg[k].max_temp.den
       \/ \A k \in 1..(Len(yearly_avg) - 1) :
             yearly_avg[k].max_temp.num * yearly_avg[k + 1].max_temp.den
                >= yearly_avg[k + 1].max_temp.num * yearly_avg[k].max_temp.den

LastMinusFirstSign ==
    LET a == yearly_avg[1].max_temp
        b == yearly_avg[Len(yearly_avg)].max_temp
    IN  Sign(b.num * a.den - a.num * b.den)

SlopeSign == IF SlopeGt0(slope) THEN 1 ELSE IF SlopeLt0(slope) THEN -1 ELSE 0

\* C9: for at least 2 Yearly Averages that are monotonic in year order, the
\* sign of the fitted slope equals the sign of last average - first average.
C9_SlopeSignMatchesEndpoints ==
    (RanWithObservations /\ TrendShown /\ Len(yearly_avg) >= 2 /\ Monotonic) =>
        SlopeSign = LastMinusFirstSign

\* C10: the fetch is called only in a button run with latitude and longitude
\* resolved; with an empty city name, no geocoding match or a geocoding
\* timeout both are None and the button run shows only the invalid-location
\* error.
C10_FetchOnlyWhenLocationResolved ==
    /\ fetch_outcome # "not_called" =>
          (button /\ latitude # None /\ longitude # None)
    /\ (pc = "idle" /\ location_input_type = "City Name"
            /\ (city_name = "" \/ sidebar \in {"location_not_found", "geocoding_timed_out"})) =>
          /\ latitude = None /\ longitude = None
          /\ fetch_outcome = "not_called"
          /\ ~AnyResultShown
          /\ button => page = <<"error_invalid_location">>

C10_Witness ==
    /\ pc = "idle" /\ button /\ sidebar = "geocoding_timed_out"
    /\ page = <<"error_invalid_location">> /\ fetch_outcome = "not_called"

====
